---- MODULE Spec2Model ----
(***************************************************************************)
(* SmartPark: webcam capture -> OCR -> plate normalisation -> duplicate    *)
(* guard -> log store.  The module models                                  *)
(*   - the Plate Normalizer (cleanPlateNumber, isValidPlateNumber) as      *)
(*     operators over sequences of one-character strings (SpecNorm),       *)
(*   - the CameraScanner component as a state machine (SpecScan),          *)
(*   - the remote-backed Index page and parkingService (SpecRemote,        *)
(*     SpecRemoteReliable, SpecRemoteLive),                                *)
(*   - the local-storage Index page (SpecLocal),                           *)
(*   - the Dashboard component (SpecDash),                                 *)
(*   - the Image Preprocessor, preprocessImage (SpecImage).                *)
(* A text is a sequence of one-character strings; time is counted in       *)
(* minutes.                                                                *)
(***************************************************************************)
EXTENDS Integers, Sequences, FiniteSets, TLC

VARIABLES
    \* ---- Plate Normalizer harness
    rawText,            \* the string handed to the function under test
    normPc,             \* "start" | "cleaned" | "validated"
    cleanedText,        \* cleanPlateNumber(rawText) once computed
    checkedText,        \* the string handed to isValidPlateNumber
    validResult,        \* isValidPlateNumber(checkedText) once computed
    \* ---- CameraScanner component state
    capturedImage,      \* 0 for null, else the number of the capture shown
    isProcessing,
    extractedText,
    selectedEntryType,
    runs,               \* capture number -> the OCR run started for it
    ocrLog,             \* what console.log recorded: (raw text, confidence)
    scanned,            \* the calls made to onPlateScanned, oldest first
    \* ---- Index page and its store
    parkingEntries,     \* the in-memory entry list, head first
    isLoading,
    loadPc,             \* loadParkingEntries / mount effects position
    reqs,               \* request number -> addParkingEntry call (remote)
    table,              \* rows of public.parking_entries
    storage,            \* localStorage["smartpark-entries"]
    queued,             \* state update queued by the mount-time load effect
    now,                \* the wall clock (Date.now()), in minutes
    \* ---- Dashboard component state
    searchTerm,
    filterType,         \* "all" | "Entry" | "Exit"
    dateFilter,         \* "all" | "today" | "week" | "month"
    download,           \* text of the CSV blob handed to the browser last
    \* ---- Image Preprocessor harness
    imageData,          \* the ImageData read from the canvas
    processedData,      \* the ImageData written back by preprocessImage
    toast               \* title of the notice shown last

normVars  == <<rawText, normPc, cleanedText, checkedText, validResult>>
scanVars  == <<capturedImage, isProcessing, extractedText, selectedEntryType,
               runs, ocrLog, scanned>>
indexVars == <<parkingEntries, isLoading, loadPc, reqs, table, storage,
               queued, now>>
dashVars  == <<searchTerm, filterType, dateFilter, download>>
imageVars == <<imageData, processedData>>
vars      == <<normVars, scanVars, indexVars, dashVars, imageVars, toast>>

-----------------------------------------------------------------------------
(* Bounds *)

MaxRawLen == 3       \* longest raw string over the full character set
MaxPlateLen == 9     \* longest raw string over the small character set
MaxCaptures == 3     \* captures taken in one behaviour of the scanner
MaxReqs == 2         \* addParkingEntry calls in one behaviour
MaxTime == 6         \* the clock stops here
MaxIds == 2          \* distinct ids the local id generator may yield
MaxShown == 2        \* entries in the list handed to the Dashboard
MaxPixels == 2       \* pixels of a frame

-----------------------------------------------------------------------------
(* Characters *)

UpperLetters ==
    <<"A","B","C","D","E","F","G","H","I","J","K","L","M",
      "N","O","P","Q","R","S","T","U","V","W","X","Y","Z">>
LowerLetters ==
    <<"a","b","c","d","e","f","g","h","i","j","k","l","m",
      "n","o","p","q","r","s","t","u","v","w","x","y","z">>
Digits == {"0","1","2","3","4","5","6","7","8","9"}

Range(f) == {f[i] : i \in DOMAIN f}

\* U+017F (long s) and U+0131 (dotless i): not ASCII, but their upper-case
\* forms are the ASCII letters S and I.
LongS == "u017F"
DotlessI == "u0131"

\* The upper-case form of each lower-case letter
UpperOf ==
    [c \in Range(LowerLetters) |->
        UpperLetters[CHOOSE i \in DOMAIN LowerLetters : LowerLetters[i] = c]]

\* String.prototype.toUpperCase, one character at a time.
toUpperCase(c) ==
    IF c \in DOMAIN UpperOf THEN UpperOf[c]
    ELSE IF c = LongS THEN "S"
    ELSE IF c = DotlessI THEN "I"
    ELSE c

IsAscii(c) == c \notin {LongS, DotlessI}

\* Canonicalize of an ignore-case regular expression without the u flag:
\* the upper-case form, except that a non-ASCII character is never folded
\* onto an ASCII one.
Canonicalize(c) ==
    IF ~IsAscii(c) /\ IsAscii(toUpperCase(c)) THEN c ELSE toUpperCase(c)

\* The class A-Z0-9 of /[^A-Z0-9]/gi, and its canonical forms
PlateClass == Range(UpperLetters) \cup Digits
CanonicalPlateClass == {Canonicalize(a) : a \in PlateClass}

\* c is matched by /[^A-Z0-9]/gi (and so removed)
MatchesNonAlnum(c) == Canonicalize(c) \notin CanonicalPlateClass

RECURSIVE RemoveMatching(_)
\* text.replace(/[^A-Z0-9]/gi, '')
RemoveMatching(s) ==
    IF s = <<>> THEN <<>>
    ELSE IF MatchesNonAlnum(Head(s)) THEN RemoveMatching(Tail(s))
         ELSE <<Head(s)>> \o RemoveMatching(Tail(s))

\* s.replace(/from/g, to) for a one-letter pattern
ReplaceAll(s, from, to) ==
    [i \in DOMAIN s |-> IF s[i] = from THEN to ELSE s[i]]

\* text.replace(/[^A-Z0-9]/gi, '').toUpperCase()
StripAndUpper(text) ==
    LET stripped == RemoveMatching(text)
    IN  [i \in DOMAIN stripped |-> toUpperCase(stripped[i])]

\* Mutant: the last two rules yield the letter O, which the first rule corrects
Corrections_LetterO ==
    << <<"O","0">>, <<"Q","0">>, <<"I","1">>, <<"L","1">>, <<"S","5">>,
       <<"Z","2">>, <<"G","6">>, <<"B","8">>, <<"D","O">>, <<"U","O">> >>

\* The ordered table of OCR corrections
Corrections ==
    << <<"O","0">>, <<"Q","0">>, <<"I","1">>, <<"L","1">>, <<"S","5">>,
       <<"Z","2">>, <<"G","6">>, <<"B","8">>, <<"D","0">>, <<"U","0">> >>

RECURSIVE ApplyCorrections(_, _)
\* the chain .replace(/O/g,'0').replace(/Q/g,'0')... from rule k on
ApplyCorrections(s, k) ==
    IF k > Len(Corrections) THEN s
    ELSE ApplyCorrections(ReplaceAll(s, Corrections[k][1], Corrections[k][2]), k + 1)

\* Mutant: the strip is done without the upper-casing
cleanPlateNumber_NoUpper(text) ==
    ApplyCorrections(RemoveMatching(text), 1)

\* Mutant: the rule for S yields B, which the later rule for B maps again
cleanPlateNumber_Cascade(text) ==
    ApplyCorrections(ReplaceAll(StripAndUpper(text), "S", "B"), 1)

cleanPlateNumber(text) ==
    ApplyCorrections(StripAndUpper(text), 1)

\* /[A-Z]/.test(s) and /[0-9]/.test(s)
UpperSet == Range(UpperLetters)
HasLetters(s) == \E i \in DOMAIN s : s[i] \in UpperSet
HasNumbers(s) == \E i \in DOMAIN s : s[i] \in Digits

\* Mutant: the length window of the earlier revision
isValidPlateNumber_6to10(plateNumber) ==
    IF Len(plateNumber) < 6 \/ Len(plateNumber) > 10 THEN FALSE
    ELSE HasLetters(plateNumber) \/ HasNumbers(plateNumber)

\* Mutant: a letter and a digit are both required
isValidPlateNumber_Both(plateNumber) ==
    IF Len(plateNumber) < 4 \/ Len(plateNumber) > 8 THEN FALSE
    ELSE HasLetters(plateNumber) /\ HasNumbers(plateNumber)

isValidPlateNumber(plateNumber) ==
    IF Len(plateNumber) < 4 \/ Len(plateNumber) > 8 THEN FALSE
    ELSE HasLetters(plateNumber) \/ HasNumbers(plateNumber)

-----------------------------------------------------------------------------
(* Plate Normalizer harness: one raw string, cleaned, then validated *)

\* Characters of short raw strings: every corrected letter, letters and
\* digits no rule touches, lower case, punctuation, blank, non-ASCII
RawChars ==
    {"O","Q","I","L","S","Z","G","B","D","U",
     "A","0","7","o","b","x","-"," ", LongS}
\* Characters of long raw strings
LongChars == {"A","7","-"}

SeqsUpTo(S, n) == UNION {[1..k -> S] : k \in 0..n}

RawTexts == SeqsUpTo(RawChars, MaxRawLen) \cup SeqsUpTo(LongChars, MaxPlateLen)

NoText == <<>>

NormIdle ==
    /\ rawText = NoText
    /\ normPc = "idle"
    /\ cleanedText = NoText
    /\ checkedText = NoText
    /\ validResult = FALSE

NormInit ==
    /\ rawText \in RawTexts
    /\ normPc = "start"
    /\ cleanedText = NoText
    /\ checkedText = NoText
    /\ validResult = FALSE

\* const cleanedText = cleanPlateNumber(text)
NormClean ==
    /\ normPc = "start"
    /\ cleanedText' = cleanPlateNumber(rawText)
    /\ normPc' = "cleaned"
    /\ UNCHANGED <<rawText, checkedText, validResult>>
    /\ UNCHANGED <<scanVars, indexVars, dashVars, imageVars, toast>>

\* isValidPlateNumber(cleanedText)
NormValidateCleaned ==
    /\ normPc = "cleaned"
    /\ checkedText' = cleanedText
    /\ validResult' = isValidPlateNumber(cleanedText)
    /\ normPc' = "validated"
    /\ UNCHANGED <<rawText, cleanedText>>
    /\ UNCHANGED <<scanVars, indexVars, dashVars, imageVars, toast>>

\* isValidPlateNumber applied to an arbitrary string
NormValidateRaw ==
    /\ normPc = "start"
    /\ checkedText' = rawText
    /\ validResult' = isValidPlateNumber(rawText)
    /\ normPc' = "validated"
    /\ UNCHANGED <<rawText, cleanedText>>
    /\ UNCHANGED <<scanVars, indexVars, dashVars, imageVars, toast>>

-----------------------------------------------------------------------------
(* CameraScanner *)

EntryTypes == {"Entry", "Exit"}

\* What the OCR engine may read: a plate with lower case and punctuation,
\* a text too short to be a plate, a plate no correction touches
OcrTexts ==
    { <<"a","b","-","1","2">>, <<"O","0","Q">>, <<"X","Y","9","9">> }

\* Confidence values the engine may report (0..100)
Confidences == {0, 30, 31}

Captures == 1..MaxCaptures

RunPcs == {"none", "onload", "createWorker", "setParameters", "recognize",
           "terminate", "done", "rejected"}

NoRun == [pc |-> "none", text |-> NoText, confidence |-> 0]

AwaitingEngine(i) ==
    runs[i].pc \in {"createWorker", "setParameters", "recognize", "terminate"}

\* the OCR run of capture i has been started and has neither completed nor failed
InFlight(i) == runs[i].pc = "onload" \/ AwaitingEngine(i)

ScanIdle ==
    /\ capturedImage = 0
    /\ isProcessing = FALSE
    /\ extractedText = NoText
    /\ selectedEntryType = "Entry"
    /\ runs = [i \in Captures |-> NoRun]
    /\ ocrLog = {}
    /\ scanned = <<>>

\* useState initial values
ScanInit == ScanIdle

\* The Capture Plate button: shown while no image is captured, disabled
\* while isProcessing.  (The second capture button is shown with an image,
\* when the Webcam is not rendered and webcamRef.current is null: capture
\* then finds no screenshot and does nothing.)
\* setIsProcessing(true) and the finally block's setIsProcessing(false) run
\* in the same handler, before img.onload: the state after it is false.
capture ==
    /\ capturedImage = 0
    /\ ~isProcessing
    /\ \E n \in Captures :
        /\ runs[n].pc = "none"
        /\ \A m \in Captures : m < n => runs[m].pc # "none"
        /\ capturedImage' = n
        /\ runs' = [runs EXCEPT ![n].pc = "onload"]
    /\ isProcessing' = FALSE
    /\ UNCHANGED <<extractedText, selectedEntryType, ocrLog, scanned, toast>>
    /\ UNCHANGED <<normVars, indexVars, dashVars, imageVars>>

\* img.onload: the frame is preprocessed and createWorker is called
onload(i) ==
    /\ runs[i].pc = "onload"
    /\ runs' = [runs EXCEPT ![i].pc = "createWorker"]
    /\ UNCHANGED <<capturedImage, isProcessing, extractedText,
                   selectedEntryType, ocrLog, scanned, toast>>
    /\ UNCHANGED <<normVars, indexVars, dashVars, imageVars>>

\* await createWorker('eng') returns
createWorkerDone(i) ==
    /\ runs[i].pc = "createWorker"
    /\ runs' = [runs EXCEPT ![i].pc = "setParameters"]
    /\ UNCHANGED <<capturedImage, isProcessing, extractedText,
                   selectedEntryType, ocrLog, scanned, toast>>
    /\ UNCHANGED <<normVars, indexVars, dashVars, imageVars>>

\* await worker.setParameters(...) returns
setParametersDone(i) ==
    /\ runs[i].pc = "setParameters"
    /\ runs' = [runs EXCEPT ![i].pc = "recognize"]
    /\ UNCHANGED <<capturedImage, isProcessing, extractedText,
                   selectedEntryType, ocrLog, scanned, toast>>
    /\ UNCHANGED <<normVars, indexVars, dashVars, imageVars>>

\* await worker.recognize(...) returns text and confidence
recognizeDone(i) ==
    /\ runs[i].pc = "recognize"
    /\ \E text \in OcrTexts, confidence \in Confidences :
        runs' = [runs EXCEPT ![i] =
                    [pc |-> "terminate", text |-> text, confidence |-> confidence]]
    /\ UNCHANGED <<capturedImage, isProcessing, extractedText,
                   selectedEntryType, ocrLog, scanned, toast>>
    /\ UNCHANGED <<normVars, indexVars, dashVars, imageVars>>

\* Mutant: the confidence threshold is not strict
PlateAccepted_Geq30(cleaned, confidence) ==
    isValidPlateNumber(cleaned) /\ confidence >= 30

\* Mutant: either test suffices
PlateAccepted_Or(cleaned, confidence) ==
    isValidPlateNumber(cleaned) \/ confidence > 30

\* isValidPlateNumber(cleanedText) && confidence > 30
PlateAccepted(cleaned, confidence) ==
    isValidPlateNumber(cleaned) /\ confidence > 30

\* await worker.terminate() returns: the text is logged, cleaned, validated
terminateDone(i) ==
    /\ runs[i].pc = "terminate"
    /\ LET text == runs[i].text
           confidence == runs[i].confidence
           cleaned == cleanPlateNumber(text)
       IN  /\ ocrLog' = ocrLog \cup {[text |-> text, confidence |-> confidence]}
           /\ IF PlateAccepted(cleaned, confidence)
              THEN /\ extractedText' = cleaned
                   /\ toast' = "License Plate Detected"
              ELSE /\ extractedText' = NoText
                   /\ toast' = "Plate Detection Failed"
    /\ runs' = [runs EXCEPT ![i] = [NoRun EXCEPT !.pc = "done"]]
    /\ UNCHANGED <<capturedImage, isProcessing, selectedEntryType, scanned>>
    /\ UNCHANGED <<normVars, indexVars, dashVars, imageVars>>

\* createWorker, setParameters, recognize or terminate throws: the promise
\* of the async onload handler is rejected, and nothing handles it (the
\* try/catch of capture has been left when onload runs)
engineThrows(i) ==
    /\ AwaitingEngine(i)
    /\ runs' = [runs EXCEPT ![i] = [NoRun EXCEPT !.pc = "rejected"]]
    /\ UNCHANGED <<capturedImage, isProcessing, extractedText,
                   selectedEntryType, ocrLog, scanned, toast>>
    /\ UNCHANGED <<normVars, indexVars, dashVars, imageVars>>

\* The Retake button, shown with a captured image
resetCapture ==
    /\ capturedImage # 0
    /\ capturedImage' = 0
    /\ extractedText' = NoText
    /\ isProcessing' = FALSE
    /\ UNCHANGED <<selectedEntryType, runs, ocrLog, scanned, toast>>
    /\ UNCHANGED <<normVars, indexVars, dashVars, imageVars>>

\* The results panel shows the plate, the Entry / Exit buttons and the
\* Record button when not processing and a text is extracted
ResultShown == ~isProcessing /\ extractedText # NoText

\* Mutant: the extracted text stays after the call of onPlateScanned
confirmPlate_KeepsText ==
    /\ ResultShown
    /\ extractedText # NoText
    /\ scanned' = Append(scanned,
                    [plate |-> extractedText, type |-> selectedEntryType])
    /\ capturedImage' = 0
    /\ isProcessing' = FALSE
    /\ UNCHANGED <<extractedText, selectedEntryType, runs, ocrLog, toast>>
    /\ UNCHANGED <<normVars, indexVars, dashVars, imageVars>>

\* The Record button: confirmPlate calls onPlateScanned and then
\* resetCapture, if (extractedText)
confirmPlate ==
    /\ ResultShown
    /\ extractedText # NoText
    /\ scanned' = Append(scanned,
                    [plate |-> extractedText, type |-> selectedEntryType])
    /\ capturedImage' = 0
    /\ extractedText' = NoText
    /\ isProcessing' = FALSE
    /\ UNCHANGED <<selectedEntryType, runs, ocrLog, toast>>
    /\ UNCHANGED <<normVars, indexVars, dashVars, imageVars>>

\* The Entry / Exit buttons, shown with the extracted text
setSelectedEntryType(t) ==
    /\ ResultShown
    /\ t # selectedEntryType
    /\ selectedEntryType' = t
    /\ UNCHANGED <<capturedImage, isProcessing, extractedText, runs, ocrLog,
                   scanned, toast>>
    /\ UNCHANGED <<normVars, indexVars, dashVars, imageVars>>

ScanNext ==
    \/ capture
    \/ \E i \in Captures : onload(i)
    \/ \E i \in Captures : createWorkerDone(i)
    \/ \E i \in Captures : setParametersDone(i)
    \/ \E i \in Captures : recognizeDone(i)
    \/ \E i \in Captures : terminateDone(i)
    \/ \E i \in Captures : engineThrows(i)
    \/ resetCapture
    \/ confirmPlate
    \/ \E t \in EntryTypes : setSelectedEntryType(t)

-----------------------------------------------------------------------------
(* Entries, timestamps and the two stores *)

\* 5 * 60 * 1000 ms, in minutes
Window == 5

\* The plate the scanner hands to onPlateScanned
Plates == {cleanPlateNumber(<<"a","b","-","1","2">>)}

\* Date.prototype.toISOString and new Date(string)
toISOString(t) == [iso |-> t]
newDate(s) == s.iso

Requests == 1..MaxReqs

ReqPcs == {"none", "check", "insert", "inserted", "done"}

NoRow == [id |-> 0]

NoReq == [pc |-> "none", plate |-> NoText, type |-> "Entry",
          since |-> 0, ts |-> 0, row |-> NoRow, outcome |-> "pending"]

\* A row of parking_entries as the client reads it (created_at is not read)
Row(id, plate, type, t) ==
    [id |-> id, plate_number |-> plate, entry_type |-> type,
     timestamp |-> toISOString(t)]

\* The ParkingEntry built from a row: timestamp: new Date(data.timestamp)
EntryOfRow(r) ==
    [id |-> r.id, plate_number |-> r.plate_number,
     timestamp |-> newDate(r.timestamp), entry_type |-> r.entry_type]

\* id UUID DEFAULT gen_random_uuid() PRIMARY KEY: an id no row has
FreshId(rows) == Cardinality(rows) + 1

\* A row left by an earlier session
OldRow == Row(1, CHOOSE p \in Plates : TRUE, "Entry", 0)

InitialTables == {{}, {OldRow}}

\* .order('timestamp', { ascending: false }): every order of the rows with
\* non-increasing timestamps (rows of equal timestamp come in any order)
SelectAllOrdered(rows) ==
    {s \in [1..Cardinality(rows) -> rows] :
        /\ \A i, j \in DOMAIN s : i # j => s[i] # s[j]
        /\ \A i, j \in DOMAIN s :
             i < j => newDate(s[i].timestamp) >= newDate(s[j].timestamp)}

\* .eq('plate_number', ..).eq('entry_type', ..).gte('timestamp', fiveMinutesAgo)
ExistsRecent(rows, plateNumber, entryType, fiveMinutesAgo) ==
    \E r \in rows :
        /\ r.plate_number = plateNumber
        /\ r.entry_type = entryType
        /\ newDate(r.timestamp) >= newDate(fiveMinutesAgo)

\* parkingEntries.find(entry => same plate, same type, timestamp > fiveMinutesAgo)
recentDuplicate(entries, plateNumber, entryType, fiveMinutesAgo) ==
    \E k \in DOMAIN entries :
        /\ entries[k].plate_number = plateNumber
        /\ entries[k].entry_type = entryType
        /\ entries[k].timestamp > fiveMinutesAgo

IndexIdle ==
    /\ parkingEntries = <<>>
    /\ isLoading = FALSE
    /\ loadPc = "idle"
    /\ reqs = [i \in Requests |-> NoReq]
    /\ table = {}
    /\ storage = <<>>
    /\ queued = <<>>
    /\ now = 0

\* The clock advances
Tick ==
    /\ now < MaxTime
    /\ now' = now + 1
    /\ UNCHANGED <<parkingEntries, isLoading, loadPc, reqs, table, storage,
                   queued, toast>>
    /\ UNCHANGED <<normVars, scanVars, dashVars, imageVars>>

-----------------------------------------------------------------------------
(* Remote-backed Index page and parkingService *)

RemoteInit ==
    /\ parkingEntries = <<>>
    /\ isLoading = TRUE
    /\ loadPc = "mount"
    /\ reqs = [i \in Requests |-> NoReq]
    /\ table \in InitialTables
    /\ storage = <<>>
    /\ queued = <<>>
    /\ now = 0

\* The mount effect calls loadParkingEntries, which calls getAllEntries
loadParkingEntries ==
    /\ loadPc = "mount"
    /\ isLoading' = TRUE
    /\ loadPc' = "fetching"
    /\ UNCHANGED <<parkingEntries, reqs, table, storage, queued, now, toast>>
    /\ UNCHANGED <<normVars, scanVars, dashVars, imageVars>>

\* getAllEntries returns the rows, newest first
getAllEntriesOk ==
    /\ loadPc = "fetching"
    /\ \E s \in SelectAllOrdered(table) :
        parkingEntries' = [k \in DOMAIN s |-> EntryOfRow(s[k])]
    /\ isLoading' = FALSE
    /\ loadPc' = "done"
    /\ UNCHANGED <<reqs, table, storage, queued, now, toast>>
    /\ UNCHANGED <<normVars, scanVars, dashVars, imageVars>>

\* the select fails: getAllEntries catches the error and returns []
getAllEntriesError ==
    /\ loadPc = "fetching"
    /\ parkingEntries' = <<>>
    /\ isLoading' = FALSE
    /\ loadPc' = "done"
    /\ UNCHANGED <<reqs, table, storage, queued, now, toast>>
    /\ UNCHANGED <<normVars, scanVars, dashVars, imageVars>>

\* Mutant: the scanner is rendered while the page is loading
addParkingEntry_Ungated(plateNumber, entryType) ==
    /\ \E i \in Requests :
        /\ reqs[i].pc = "none"
        /\ \A j \in Requests : j < i => reqs[j].pc # "none"
        /\ reqs' = [reqs EXCEPT ![i] =
                [NoReq EXCEPT !.pc = "check", !.plate = plateNumber,
                              !.type = entryType, !.since = now - Window]]
    /\ UNCHANGED <<parkingEntries, isLoading, loadPc, table, storage, queued,
                   now, toast>>
    /\ UNCHANGED <<normVars, scanVars, dashVars, imageVars>>

\* The scanner calls addParkingEntry (it is rendered only when not loading);
\* checkDuplicateEntry computes fiveMinutesAgo and sends its query
addParkingEntry(plateNumber, entryType) ==
    /\ ~isLoading
    /\ \E i \in Requests :
        /\ reqs[i].pc = "none"
        /\ \A j \in Requests : j < i => reqs[j].pc # "none"
        /\ reqs' = [reqs EXCEPT ![i] =
                [NoReq EXCEPT !.pc = "check", !.plate = plateNumber,
                              !.type = entryType, !.since = now - Window]]
    /\ UNCHANGED <<parkingEntries, isLoading, loadPc, table, storage, queued,
                   now, toast>>
    /\ UNCHANGED <<normVars, scanVars, dashVars, imageVars>>

\* addParkingEntry has returned with this outcome
Finished(outcome) == [NoReq EXCEPT !.pc = "done", !.outcome = outcome]

\* insertEntry is called: timestamp: new Date().toISOString()
InsertCalled(r) == [r EXCEPT !.pc = "insert", !.since = 0, !.ts = now]

\* The existence check answers; a duplicate ends the call, otherwise
\* insertEntry is called
checkDuplicateEntryOk(i) ==
    /\ reqs[i].pc = "check"
    /\ IF ExistsRecent(table, reqs[i].plate, reqs[i].type, toISOString(reqs[i].since))
       THEN /\ toast' = "Duplicate Entry Detected"
            /\ reqs' = [reqs EXCEPT ![i] = Finished("duplicate")]
       ELSE /\ reqs' = [reqs EXCEPT ![i] = InsertCalled(reqs[i])]
            /\ UNCHANGED toast
    /\ UNCHANGED <<parkingEntries, isLoading, loadPc, table, storage, queued, now>>
    /\ UNCHANGED <<normVars, scanVars, dashVars, imageVars>>

\* Mutant: a failed existence check counts as a duplicate
checkDuplicateEntryError_FailClosed(i) ==
    /\ reqs[i].pc = "check"
    /\ toast' = "Duplicate Entry Detected"
    /\ reqs' = [reqs EXCEPT ![i] = Finished("duplicate")]
    /\ UNCHANGED <<parkingEntries, isLoading, loadPc, table, storage, queued, now>>
    /\ UNCHANGED <<normVars, scanVars, dashVars, imageVars>>

\* The existence check fails: checkDuplicateEntry returns false
checkDuplicateEntryError(i) ==
    /\ reqs[i].pc = "check"
    /\ reqs' = [reqs EXCEPT ![i] = InsertCalled(reqs[i])]
    /\ UNCHANGED <<parkingEntries, isLoading, loadPc, table, storage, queued,
                   now, toast>>
    /\ UNCHANGED <<normVars, scanVars, dashVars, imageVars>>

\* The table takes the row
insertRowOk(i) ==
    /\ reqs[i].pc = "insert"
    /\ LET row == Row(FreshId(table), reqs[i].plate, reqs[i].type, reqs[i].ts)
       IN  /\ table' = table \cup {row}
           /\ reqs' = [reqs EXCEPT ![i] = [NoReq EXCEPT !.pc = "inserted", !.row = row]]
    /\ UNCHANGED <<parkingEntries, isLoading, loadPc, storage, queued, now, toast>>
    /\ UNCHANGED <<normVars, scanVars, dashVars, imageVars>>

\* The insert fails: insertEntry returns null
insertRowError(i) ==
    /\ reqs[i].pc = "insert"
    /\ reqs' = [reqs EXCEPT ![i] = [NoReq EXCEPT !.pc = "inserted"]]
    /\ UNCHANGED <<parkingEntries, isLoading, loadPc, table, storage, queued,
                   now, toast>>
    /\ UNCHANGED <<normVars, scanVars, dashVars, imageVars>>

\* Mutant: the new entry is put at the tail
Prepend_AtTail(newEntry, prev) == prev \o <<newEntry>>

\* prev => [newEntry, ...prev]
Prepend(newEntry, prev) == <<newEntry>> \o prev

\* Mutant: an entry is put in the list although the insert gave no row
insertEntryReturn_Optimistic(i) ==
    /\ reqs[i].pc = "inserted"
    /\ parkingEntries' = Prepend(EntryOfRow(Row(0, reqs[i].plate, reqs[i].type, now)),
                                 parkingEntries)
    /\ toast' = IF reqs[i].row # NoRow THEN "License Plate Scanned"
                ELSE "Failed to Save Entry"
    /\ reqs' = [reqs EXCEPT ![i] =
            Finished(IF reqs[i].row # NoRow THEN "success" ELSE "failed")]
    /\ UNCHANGED <<isLoading, loadPc, table, storage, queued, now>>
    /\ UNCHANGED <<normVars, scanVars, dashVars, imageVars>>

\* Mutant: a call whose insert gave no row ends without a notice
insertEntryReturn_Silent(i) ==
    /\ reqs[i].pc = "inserted"
    /\ IF reqs[i].row # NoRow
       THEN /\ parkingEntries' = Prepend(EntryOfRow(reqs[i].row), parkingEntries)
            /\ toast' = "License Plate Scanned"
            /\ reqs' = [reqs EXCEPT ![i] = Finished("success")]
       ELSE /\ reqs' = [reqs EXCEPT ![i] = Finished("failed")]
            /\ UNCHANGED <<parkingEntries, toast>>
    /\ UNCHANGED <<isLoading, loadPc, table, storage, queued, now>>
    /\ UNCHANGED <<normVars, scanVars, dashVars, imageVars>>

\* insertEntry returns to addParkingEntry
insertEntryReturn(i) ==
    /\ reqs[i].pc = "inserted"
    /\ IF reqs[i].row # NoRow
       THEN /\ parkingEntries' = Prepend(EntryOfRow(reqs[i].row), parkingEntries)
            /\ toast' = "License Plate Scanned"
            /\ reqs' = [reqs EXCEPT ![i] = Finished("success")]
       ELSE /\ toast' = "Failed to Save Entry"
            /\ reqs' = [reqs EXCEPT ![i] = Finished("failed")]
            /\ UNCHANGED parkingEntries
    /\ UNCHANGED <<isLoading, loadPc, table, storage, queued, now>>
    /\ UNCHANGED <<normVars, scanVars, dashVars, imageVars>>

\* The remote store answers every call
RemoteReliableNext ==
    \/ loadParkingEntries
    \/ getAllEntriesOk
    \/ \E p \in Plates, t \in EntryTypes : addParkingEntry(p, t)
    \/ \E i \in Requests : checkDuplicateEntryOk(i)
    \/ \E i \in Requests : insertRowOk(i)
    \/ \E i \in Requests : insertEntryReturn(i)
    \/ Tick

\* The remote store may fail any call
RemoteNext ==
    \/ loadParkingEntries
    \/ getAllEntriesOk
    \/ getAllEntriesError
    \/ \E p \in Plates, t \in EntryTypes : addParkingEntry(p, t)
    \/ \E i \in Requests : checkDuplicateEntryOk(i)
    \/ \E i \in Requests : checkDuplicateEntryError(i)
    \/ \E i \in Requests : insertRowOk(i)
    \/ \E i \in Requests : insertRowError(i)
    \/ \E i \in Requests : insertEntryReturn(i)
    \/ Tick

-----------------------------------------------------------------------------
(* Local-storage Index page *)

\* Ids Math.random().toString(36).substr(2, 9) may yield
LocalIds == 1..MaxIds

\* JSON.stringify of the entry list: a Date is written as its ISO string
stringify(entries) ==
    [k \in DOMAIN entries |->
        [id |-> entries[k].id, plate_number |-> entries[k].plate_number,
         timestamp |-> toISOString(entries[k].timestamp),
         entry_type |-> entries[k].entry_type]]

\* Mutant: the parsed array is turned around
entriesWithDates_Reversed(json) ==
    [k \in DOMAIN json |->
        [id |-> json[Len(json) + 1 - k].id,
         plate_number |-> json[Len(json) + 1 - k].plate_number,
         timestamp |-> newDate(json[Len(json) + 1 - k].timestamp),
         entry_type |-> json[Len(json) + 1 - k].entry_type]]

\* JSON.parse, then timestamp: new Date(entry.timestamp) on every entry
entriesWithDates(json) ==
    [k \in DOMAIN json |->
        [id |-> json[k].id, plate_number |-> json[k].plate_number,
         timestamp |-> newDate(json[k].timestamp),
         entry_type |-> json[k].entry_type]]

\* localStorage holds no item (<<>>) or one item, the JSON array
NoItem == <<>>
Item(json) == <<json>>

\* An entry left by an earlier session
OldEntry == EntryOfRow(OldRow)

InitialStorages == {NoItem, Item(stringify(<<>>)), Item(stringify(<<OldEntry>>))}

LocalInit ==
    /\ parkingEntries = <<>>
    /\ isLoading = FALSE
    /\ loadPc = "mount"
    /\ reqs = [i \in Requests |-> NoReq]
    /\ table = {}
    /\ storage \in InitialStorages
    /\ queued = <<>>
    /\ now = 0

\* First effect of the mount: the saved list, if any, is parsed and
\* setParkingEntries is called with it (applied at the next render)
loadEffect ==
    /\ loadPc = "mount"
    /\ queued' = IF storage # NoItem /\ storage[1] # <<>>
                 THEN <<entriesWithDates(storage[1])>>
                 ELSE <<>>
    /\ loadPc' = "loaded"
    /\ UNCHANGED <<parkingEntries, isLoading, reqs, table, storage, now, toast>>
    /\ UNCHANGED <<normVars, scanVars, dashVars, imageVars>>

\* Second effect of the mount: the list of the first render is saved
saveEffect ==
    /\ loadPc = "loaded"
    /\ storage' = Item(stringify(parkingEntries))
    /\ loadPc' = "saved"
    /\ UNCHANGED <<parkingEntries, isLoading, reqs, table, queued, now, toast>>
    /\ UNCHANGED <<normVars, scanVars, dashVars, imageVars>>

\* The render after the mount: a queued list becomes the state, and the
\* save effect runs for it
applyLoaded ==
    /\ loadPc = "saved"
    /\ IF queued # <<>>
       THEN /\ parkingEntries' = queued[1]
            /\ storage' = Item(stringify(queued[1]))
       ELSE UNCHANGED <<parkingEntries, storage>>
    /\ queued' = <<>>
    /\ loadPc' = "done"
    /\ UNCHANGED <<isLoading, reqs, table, now, toast>>
    /\ UNCHANGED <<normVars, scanVars, dashVars, imageVars>>

\* addParkingEntry of the local variant, with the save effect of the
\* render that follows it
addParkingEntryLocal(plateNumber, entryType, id) ==
    /\ loadPc = "done"
    /\ Len(parkingEntries) < MaxReqs + 1
    /\ LET fiveMinutesAgo == now - Window
           newEntry == [id |-> id, plate_number |-> plateNumber,
                        timestamp |-> now, entry_type |-> entryType]
       IN  IF recentDuplicate(parkingEntries, plateNumber, entryType, fiveMinutesAgo)
           THEN /\ toast' = "Duplicate Entry Detected"
                /\ UNCHANGED <<parkingEntries, storage>>
           ELSE /\ parkingEntries' = Prepend(newEntry, parkingEntries)
                /\ storage' = Item(stringify(parkingEntries'))
                /\ toast' = "License Plate Scanned"
    /\ UNCHANGED <<isLoading, loadPc, reqs, table, queued, now>>
    /\ UNCHANGED <<normVars, scanVars, dashVars, imageVars>>

\* The page is closed and opened again: the component state starts anew,
\* localStorage keeps its item
reload ==
    /\ loadPc = "done"
    /\ parkingEntries' = <<>>
    /\ queued' = <<>>
    /\ loadPc' = "mount"
    /\ toast' = "none"
    /\ UNCHANGED <<isLoading, reqs, table, storage, now>>
    /\ UNCHANGED <<normVars, scanVars, dashVars, imageVars>>

LocalNext ==
    \/ loadEffect
    \/ saveEffect
    \/ applyLoaded
    \/ \E p \in Plates, t \in EntryTypes, id \in LocalIds :
            addParkingEntryLocal(p, t, id)
    \/ reload
    \/ Tick

-----------------------------------------------------------------------------
(* Dashboard component *)

\* 24 * 60 minutes
Day == 24 * 60

\* The lower-case form of each upper-case letter
LowerOf ==
    [c \in Range(UpperLetters) |->
        LowerLetters[CHOOSE i \in DOMAIN UpperLetters : UpperLetters[i] = c]]

\* String.prototype.toLowerCase
toLowerCase(s) ==
    [i \in DOMAIN s |-> IF s[i] \in DOMAIN LowerOf THEN LowerOf[s[i]] ELSE s[i]]

\* String.prototype.includes
includes(s, searchString) ==
    \E k \in 0..(Len(s) - Len(searchString)) :
        SubSeq(s, k + 1, k + Len(searchString)) = searchString

\* Date.prototype.toDateString: the calendar day of a time
toDateString(t) == t \div Day

\* What the user may type in the search box: nothing, a lower-case text
\* found inside one plate, an upper-case text at the head of another, a
\* text found in no plate, a text longer than a plate
SearchTerms ==
    { <<>>, <<"b","1">>, <<"C","D">>, <<"x">>, <<"A","B","1","2","3">> }

FilterTypes == {"all", "Entry", "Exit"}
DateFilters == {"all", "today", "week", "month"}

\* Plate, direction and time of the entries shown: now and one minute ago
\* (the day before), 7 days ago to the minute and one minute more, 30 days
\* ago to the minute and one minute more; times count from the moment the
\* Dashboard is looked at, which is midnight
DashKinds ==
    { <<<<"A","B","1","2">>, "Entry", 0>>,
      <<<<"A","B","1","2">>, "Exit", 0>>,
      <<<<"C","D","3","4">>, "Entry", 0>>,
      <<<<"A","B","1","2">>, "Entry", 0 - 1>>,
      <<<<"C","D","3","4">>, "Exit", 0 - 7 * Day>>,
      <<<<"A","B","1","2">>, "Entry", 0 - 7 * Day - 1>>,
      <<<<"C","D","3","4">>, "Entry", 0 - 30 * Day>>,
      <<<<"A","B","1","2">>, "Exit", 0 - 30 * Day - 1>> }

\* The entry lists handed to the Dashboard, ids all different
DashLists ==
    UNION { { [k \in 1..n |->
                 [id |-> k, plate_number |-> f[k][1],
                  timestamp |-> f[k][3], entry_type |-> f[k][2]]] :
              f \in [1..n -> DashKinds] } : n \in 0..MaxShown }

NoDownload == <<>>

DashIdle ==
    /\ searchTerm = <<>>
    /\ filterType = "all"
    /\ dateFilter = "all"
    /\ download = NoDownload

\* The Dashboard is shown with a list of entries
DashInit ==
    /\ parkingEntries \in DashLists
    /\ isLoading = FALSE
    /\ loadPc = "done"
    /\ reqs = [i \in Requests |-> NoReq]
    /\ table = {}
    /\ storage = <<>>
    /\ queued = <<>>
    /\ now = 0
    /\ DashIdle

\* entry.plate_number.toLowerCase().includes(searchTerm.toLowerCase())
SearchTest(entry) ==
    includes(toLowerCase(entry.plate_number), toLowerCase(searchTerm))

\* entry.entry_type === filterType
TypeTest(entry) == entry.entry_type = filterType

\* The switch on dateFilter
DateTest(entry) ==
    CASE dateFilter = "today" ->
            toDateString(entry.timestamp) = toDateString(now)
      [] dateFilter = "week" -> entry.timestamp >= now - 7 * Day
      [] dateFilter = "month" -> entry.timestamp >= now - 30 * Day
      [] OTHER -> TRUE

\* Mutant: an entry is kept when it passes any of the active filters
filteredEntries_Or ==
    IF searchTerm = <<>> /\ filterType = "all" /\ dateFilter = "all"
    THEN parkingEntries
    ELSE SelectSeq(parkingEntries,
            LAMBDA e : \/ searchTerm # <<>> /\ SearchTest(e)
                       \/ filterType # "all" /\ TypeTest(e)
                       \/ dateFilter # "all" /\ DateTest(e))

\* The useMemo: the three filters, one after the other
filteredEntries ==
    LET bySearch == IF searchTerm # <<>>
                    THEN SelectSeq(parkingEntries, SearchTest)
                    ELSE parkingEntries
        byType == IF filterType # "all"
                  THEN SelectSeq(bySearch, TypeTest)
                  ELSE bySearch
    IN  IF dateFilter # "all" THEN SelectSeq(byType, DateTest) ELSE byType

setSearchTerm(value) ==
    /\ value # searchTerm
    /\ searchTerm' = value
    /\ UNCHANGED <<filterType, dateFilter, download>>
    /\ UNCHANGED <<normVars, scanVars, indexVars, imageVars, toast>>

setFilterType(value) ==
    /\ value # filterType
    /\ filterType' = value
    /\ UNCHANGED <<searchTerm, dateFilter, download>>
    /\ UNCHANGED <<normVars, scanVars, indexVars, imageVars, toast>>

setDateFilter(value) ==
    /\ value # dateFilter
    /\ dateFilter' = value
    /\ UNCHANGED <<searchTerm, filterType, download>>
    /\ UNCHANGED <<normVars, scanVars, indexVars, imageVars, toast>>

\* The text of entry.timestamp.toISOString() inside the template literal
IsoText(t) == ToString(toISOString(t))

CsvHeader == <<"Plate Number,Entry Type,Timestamp">>

\* `${entry.plate_number},${entry.entry_type},${entry.timestamp.toISOString()}`
CsvLine(entry) ==
    entry.plate_number \o <<",", entry.entry_type, ",", IsoText(entry.timestamp)>>

RECURSIVE join(_, _)
\* Array.prototype.join
join(lines, separator) ==
    IF lines = <<>> THEN <<>>
    ELSE IF Len(lines) = 1 THEN lines[1]
    ELSE lines[1] \o <<separator>> \o join(Tail(lines), separator)

\* [header, ...entries.map(line)].join("\n")
csvContent(entries) ==
    join(<<CsvHeader>> \o [k \in DOMAIN entries |-> CsvLine(entries[k])], "\n")

\* Mutant: every entry of the list is exported, filtered or not
exportData_AllEntries ==
    /\ Len(filteredEntries) # 0
    /\ download' = csvContent(parkingEntries)
    /\ UNCHANGED <<searchTerm, filterType, dateFilter>>
    /\ UNCHANGED <<normVars, scanVars, indexVars, imageVars, toast>>

\* Export CSV is clicked (the button is disabled while nothing is shown)
exportData ==
    /\ Len(filteredEntries) # 0
    /\ download' = csvContent(filteredEntries)
    /\ UNCHANGED <<searchTerm, filterType, dateFilter>>
    /\ UNCHANGED <<normVars, scanVars, indexVars, imageVars, toast>>

DashNext ==
    \/ \E value \in SearchTerms : setSearchTerm(value)
    \/ \E value \in FilterTypes : setFilterType(value)
    \/ \E value \in DateFilters : setDateFilter(value)
    \/ exportData

-----------------------------------------------------------------------------
(* Image Preprocessor harness: one frame, read from the canvas, processed *)

threshold == 128
contrast == 2
brightness == 20

\* Colours of the pixels: black, white, the greys on both sides of the
\* threshold, pure red and pure blue, and two colours whose weighted sum
\* is 54.5 in exact arithmetic
Colours ==
    { <<0, 0, 0>>, <<255, 255, 255>>, <<54, 54, 54>>, <<55, 55, 55>>,
      <<255, 0, 0>>, <<0, 0, 255>>, <<2, 86, 30>>, <<6, 76, 71>> }

Alphas == {0, 200}

\* The colours whose weighted sum is 54.5 in exact arithmetic and for which
\* 0.299 * R + 0.587 * G + 0.114 * B, evaluated left to right in IEEE 754
\* double precision, is 54.49999999999999 (for the other 46 colours of sum
\* 54.5, such as (2, 86, 30), it is 54.5)
SumFallsShort ==
    { <<6, 76, 71>>, <<28, 78, 3>>, <<32, 68, 44>>, <<47, 59, 51>>,
      <<55, 39, 133>>, <<73, 51, 24>>, <<88, 42, 31>>, <<103, 33, 38>>,
      <<129, 25, 11>>, <<133, 15, 52>>, <<144, 16, 18>>, <<148, 6, 59>> }

\* Math.round(0.299 * R + 0.587 * G + 0.114 * B) for the colours above:
\* Math.round takes a tie upwards, and 54 is what it makes of
\* 54.49999999999999
gray(R, G, B) ==
    IF <<R, G, B>> \in SumFallsShort
    THEN (299 * R + 587 * G + 114 * B) \div 1000
    ELSE (299 * R + 587 * G + 114 * B + 500) \div 1000

Min(a, b) == IF a < b THEN a ELSE b
Max(a, b) == IF a > b THEN a ELSE b

\* enhanced: contrast and brightness, binary threshold, clamp
enhanced(g) ==
    LET scaled == g * contrast + brightness
        binary == IF scaled > threshold THEN 255 ELSE 0
    IN  Min(255, Max(0, binary))

\* Frames of up to MaxPixels pixels, 4 bytes a pixel
Shapes ==
    {s \in (1..MaxPixels) \X (1..MaxPixels) : s[1] * s[2] <= MaxPixels}

Frames ==
    UNION { { [width |-> s[1], height |-> s[2],
               data |-> [i \in 1..(4 * s[1] * s[2]) |->
                           IF i % 4 = 0 THEN a[i \div 4]
                           ELSE c[(i - 1) \div 4 + 1][i % 4]]] :
              c \in [1..(s[1] * s[2]) -> Colours],
              a \in [1..(s[1] * s[2]) -> Alphas] } : s \in Shapes }

NoImage == [width |-> 0, height |-> 0, data |-> <<>>]

ImageIdle ==
    /\ imageData = NoImage
    /\ processedData = NoImage

\* ctx.getImageData(0, 0, canvas.width, canvas.height)
ImageInit ==
    /\ imageData \in Frames
    /\ processedData = NoImage

\* The loop over the pixels (i += 4 from 0: bytes 4p + 1 .. 4p + 3 here),
\* then putImageData
preprocessImage ==
    /\ processedData = NoImage
    /\ LET data == imageData.data
           first(i) == i - ((i - 1) % 4)
       IN  processedData' =
             [imageData EXCEPT !.data =
                [i \in DOMAIN data |->
                    IF i % 4 = 0 THEN data[i]
                    ELSE enhanced(gray(data[first(i)], data[first(i) + 1],
                                       data[first(i) + 2]))]]
    /\ UNCHANGED imageData
    /\ UNCHANGED <<normVars, scanVars, indexVars, dashVars, toast>>

ImageNext ==
    \/ preprocessImage

-----------------------------------------------------------------------------
(* Specifications *)

NormNext ==
    \/ NormClean
    \/ NormValidateCleaned
    \/ NormValidateRaw

\* The components a specification leaves alone, at rest
ViewIdle == DashIdle /\ ImageIdle /\ toast = "none"

InitNorm == NormInit /\ ScanIdle /\ IndexIdle /\ ViewIdle
InitScan == NormIdle /\ ScanInit /\ IndexIdle /\ ViewIdle
InitRemote == NormIdle /\ ScanIdle /\ RemoteInit /\ ViewIdle
InitLocal == NormIdle /\ ScanIdle /\ LocalInit /\ ViewIdle
InitImage == NormIdle /\ ScanIdle /\ IndexIdle /\ DashIdle /\ ImageInit /\ toast = "none"
InitDash == NormIdle /\ ScanIdle /\ DashInit /\ ImageIdle /\ toast = "none"

\* The Plate Normalizer applied to every raw string of the bounded sets
SpecNorm == InitNorm /\ [][NormNext]_vars

\* The CameraScanner component
SpecScan == InitScan /\ [][ScanNext]_vars

\* The remote-backed Index page, the store failing at will
SpecRemote == InitRemote /\ [][RemoteNext]_vars

\* The remote-backed Index page, the store answering every call
SpecRemoteReliable == InitRemote /\ [][RemoteReliableNext]_vars

\* The local-storage Index page
SpecLocal == InitLocal /\ [][LocalNext]_vars

\* The Dashboard over every entry list of the bounded set
SpecDash == InitDash /\ [][DashNext]_vars

\* The Image Preprocessor applied to every frame of the bounded set
SpecImage == InitImage /\ [][ImageNext]_vars

-----------------------------------------------------------------------------
(* Claims about the Plate Normalizer (SpecNorm) *)

\* C5: for every raw OCR string, the output of cleanPlateNumber contains
\* only characters in [A-Z0-9]: no lower-case letter, blank, punctuation
\* or non-ASCII character survives.
C5_OutputAlphabet ==
    normPc = "cleaned" =>
        \A i \in DOMAIN cleanedText : cleanedText[i] \in PlateClass

\* a raw string with lower case, punctuation and a non-ASCII letter whose
\* upper-case form is ASCII has been cleaned to a non-empty text
C5_Witness ==
    /\ normPc = "cleaned"
    /\ rawText = <<"b", "-", LongS>>
    /\ cleanedText = <<"8">>

\* The simultaneous per-character mapping of the correction table
SimultaneousMap(c) ==
    IF c \in {"O", "Q", "D", "U"} THEN "0"
    ELSE IF c \in {"I", "L"} THEN "1"
    ELSE IF c = "S" THEN "5"
    ELSE IF c = "Z" THEN "2"
    ELSE IF c = "G" THEN "6"
    ELSE IF c = "B" THEN "8"
    ELSE c

\* C6: the ordered substitution chain equals one simultaneous per-character
\* mapping of the stripped, upper-cased input (O,Q,D,U->0; I,L->1; S->5;
\* Z->2; G->6; B->8; anything else unchanged); the output is as long as the
\* stripped input; and "O0Q" yields "000".
C6_ChainIsSimultaneousMap ==
    normPc = "cleaned" =>
        LET stripped == StripAndUpper(rawText)
        IN  /\ Len(cleanedText) = Len(stripped)
            /\ \A i \in DOMAIN stripped :
                    cleanedText[i] = SimultaneousMap(stripped[i])
            /\ rawText = <<"O", "0", "Q">> => cleanedText = <<"0", "0", "0">>

\* "O0Q" has been cleaned to "000"
C6_Witness ==
    /\ normPc = "cleaned"
    /\ rawText = <<"O", "0", "Q">>
    /\ cleanedText = <<"0", "0", "0">>

\* C7: isValidPlateNumber rejects every string of length 3 or less and every
\* string of length 9 or more, whatever it contains: it accepts no string
\* whose length is outside 4..8.
C7_LengthPolicy ==
    normPc = "validated" =>
        /\ Len(checkedText) <= 3 => ~validResult
        /\ Len(checkedText) >= 9 => ~validResult
        /\ validResult => Len(checkedText) \in 4..8

\* a string of 9 letters and digits has been rejected
C7_Witness ==
    /\ normPc = "validated"
    /\ Len(checkedText) = 9
    /\ HasLetters(checkedText)
    /\ HasNumbers(checkedText)
    /\ ~validResult

-----------------------------------------------------------------------------
(* Claims about the CameraScanner (SpecScan) *)

\* C3: one capture is processed at a time: while the OCR run of a capture
\* is in flight (from the screenshot until the run has completed or failed)
\* isProcessing is true, which disables the capture buttons, and so no
\* second OCR run is in flight beside it.
C3_OneCaptureAtATime ==
    /\ \A i \in Captures : InFlight(i) => isProcessing
    /\ Cardinality({i \in Captures : InFlight(i)}) <= 1

\* C4: whenever the OCR engine throws during a capture (in createWorker,
\* setParameters, recognize or terminate), the step that ends the capture
\* shows the "OCR Processing Failed" notice and clears extractedText.
C4_EngineFailureReported ==
    [][\A i \in Captures :
         (AwaitingEngine(i) /\ runs'[i].pc = "rejected") =>
            (toast' = "OCR Processing Failed" /\ extractedText' = NoText)]_vars

\* C8: when an OCR run completes, extractedText is set to the cleaned plate
\* and the detection notice is shown exactly when the cleaned text is a
\* valid plate and the confidence is above 30; otherwise (validation fails,
\* or the confidence is 30 or less) extractedText is set to the empty text
\* and the failure notice is shown.
C8_OcrOutcome ==
    [][\A i \in Captures :
         (runs[i].pc = "terminate" /\ runs'[i].pc = "done") =>
            LET cleaned == cleanPlateNumber(runs[i].text)
            IN  IF isValidPlateNumber(cleaned) /\ runs[i].confidence > 30
                THEN /\ extractedText' = cleaned
                     /\ cleaned # NoText
                     /\ toast' = "License Plate Detected"
                ELSE /\ extractedText' = NoText
                     /\ toast' = "Plate Detection Failed"]_vars

\* a run that read a valid plate with confidence exactly 30 has completed:
\* no text is extracted and the failure notice is shown
C8_Witness ==
    /\ \E i \in Captures : runs[i].pc = "done"
    /\ ocrLog = {[text |-> <<"X","Y","9","9">>, confidence |-> 30]}
    /\ extractedText = NoText
    /\ toast = "Plate Detection Failed"

\* C9: every plate passed to onPlateScanned is the cleanPlateNumber output
\* of a completed OCR run that satisfied isValidPlateNumber with a
\* confidence above 30, whatever the order of captures, retakes,
\* confirmations and run completions.
C9_OnlyValidatedPlatesScanned ==
    \A k \in DOMAIN scanned :
        \E l \in ocrLog :
            /\ cleanPlateNumber(l.text) = scanned[k].plate
            /\ isValidPlateNumber(scanned[k].plate)
            /\ l.confidence > 30

\* a plate has been confirmed after a capture failed validation (a text too
\* short to be a plate), while the OCR run of a later capture is in flight
C9_Witness ==
    /\ Len(scanned) = 1
    /\ scanned[1].plate = <<"A","8","1","2">>
    /\ [text |-> <<"O","0","Q">>, confidence |-> 31] \in ocrLog
    /\ \E i \in Captures : InFlight(i)

-----------------------------------------------------------------------------
(* Claims about the Log Store (SpecRemote, SpecRemoteReliable) *)

\* the list holds an entry of this plate and direction in the window
ListedInWindow(plateNumber, entryType, fiveMinutesAgo) ==
    \E k \in DOMAIN parkingEntries :
        /\ parkingEntries[k].plate_number = plateNumber
        /\ parkingEntries[k].entry_type = entryType
        /\ parkingEntries[k].timestamp >= fiveMinutesAgo

\* C1: a record request is rejected with the duplicate notice, and creates
\* no entry, when the list holds an entry of the same plate and direction
\* with a timestamp in the trailing 5-minute window; a request whose plate
\* and direction the list holds only in the other direction, or only older
\* than 5 minutes, is accepted and goes on to create its entry.
C1_DuplicateGuardDecision ==
    [][\A i \in Requests :
         (reqs[i].pc = "check" /\ reqs'[i].pc # "check") =>
            IF ListedInWindow(reqs[i].plate, reqs[i].type, reqs[i].since)
            THEN /\ reqs'[i] = Finished("duplicate")
                 /\ toast' = "Duplicate Entry Detected"
                 /\ parkingEntries' = parkingEntries
            ELSE reqs'[i].pc = "insert"]_vars

Abs(n) == IF n < 0 THEN 0 - n ELSE n

\* C2: the entry list never holds two entries of the same plate and the
\* same direction whose timestamps are less than 5 minutes apart.
C2_NoDuplicateInList ==
    \A i, j \in DOMAIN parkingEntries :
        ( /\ i < j
          /\ parkingEntries[i].plate_number = parkingEntries[j].plate_number
          /\ parkingEntries[i].entry_type = parkingEntries[j].entry_type )
        => Abs(parkingEntries[i].timestamp - parkingEntries[j].timestamp) >= Window

\* C10: the in-memory list has non-increasing timestamps from head to tail
\* after the initial load and any sequence of successful record requests.
C10_NewestFirst ==
    \A i, j \in DOMAIN parkingEntries :
        i < j => parkingEntries[i].timestamp >= parkingEntries[j].timestamp

-----------------------------------------------------------------------------
(* Claims about the entry list of the remote-backed page (SpecRemote) *)

\* next is prev with exactly one entry put in front
PrependsOne(prev, next) ==
    /\ Len(next) = Len(prev) + 1
    /\ \A k \in DOMAIN prev : next[k + 1] = prev[k]

\* C11: once the initial load has ended, every step of the page leaves the
\* in-memory list as it is or puts exactly one entry in front of it: the
\* previous list is a suffix of the next one, entry by entry
C11_AppendOnly ==
    [][loadPc = "done" /\ loadPc' = "done" =>
          \/ parkingEntries' = parkingEntries
          \/ PrependsOne(parkingEntries, parkingEntries')]_vars

\* C11 witness: a loaded list that has taken a new entry in front of the
\* loaded one
C11_Witness ==
    /\ loadPc = "done"
    /\ Len(parkingEntries) = 2
    /\ parkingEntries[2] = EntryOfRow(OldRow)
    /\ \E i \in Requests : reqs[i].outcome = "success"

\* C12: a store failure leaves the in-memory list as it was: no step of an
\* addParkingEntry call other than its successful return changes the list
\* (so a call whose insert gave an error or no row leaves it as it found
\* it), and the step in which getAllEntries fails leaves the list as it was
\* before the load
C12_FailureLeavesListUnchanged ==
    [][/\ \A i \in Requests :
            reqs'[i] # reqs[i] /\ reqs'[i].outcome # "success"
                => parkingEntries' = parkingEntries
       /\ getAllEntriesError => parkingEntries' = parkingEntries]_vars

\* C12 witness: the read has failed (the row of the table is not listed),
\* one call has put its entry in the list and a later insert has failed
C12_Witness ==
    /\ loadPc = "done"
    /\ OldRow \in table
    /\ Len(parkingEntries) = 1
    /\ parkingEntries[1] # EntryOfRow(OldRow)
    /\ \E i \in Requests : reqs[i].outcome = "failed"

\* C13: every store failure ends with its notice: the return of a failed
\* insert shows "Failed to Save Entry", and the step in which the read of
\* getAllEntries fails shows "Failed to Load Data" (looked at where the
\* table holds a row: there no successful read ends with an empty list)
C13_StoreFailureNoticed ==
    [][/\ \A i \in Requests :
            reqs'[i] # reqs[i] /\ reqs'[i].outcome = "failed"
                => toast' = "Failed to Save Entry"
       /\ getAllEntriesError /\ table # {}
            => toast' = "Failed to Load Data"]_vars

-----------------------------------------------------------------------------
(* Claims about the Dashboard (SpecDash) *)

\* term is found in plate from position k + 1 on, letters compared without
\* regard to case
FoundAt(plate, term, k) ==
    \A j \in DOMAIN term :
        /\ k + j <= Len(plate)
        /\ toUpperCase(plate[k + j]) = toUpperCase(term[j])

\* The entry satisfies every predicate that is active
PassesAll(e) ==
    /\ \/ searchTerm = <<>>
       \/ \E k \in 0..Len(e.plate_number) : FoundAt(e.plate_number, searchTerm, k)
    /\ \/ filterType = "all"
       \/ e.entry_type = filterType
    /\ \/ dateFilter = "all"
       \/ /\ dateFilter = "today"
          /\ now - (now % Day) <= e.timestamp
          /\ e.timestamp < now - (now % Day) + Day
       \/ dateFilter = "week" /\ now - e.timestamp <= 7 * Day
       \/ dateFilter = "month" /\ now - e.timestamp <= 30 * Day

\* C14: filteredEntries is exactly the subsequence, in the original order,
\* of the entries that satisfy all active predicates at once: plate holds
\* the search term without regard to case, direction equals the type
\* filter, time lies in the date window; an empty term, type "all" and
\* date "all" restrict nothing
C14_FilterIsConjunction ==
    LET Kept == {k \in DOMAIN parkingEntries : PassesAll(parkingEntries[k])}
        Nth(j) == CHOOSE k \in Kept : Cardinality({m \in Kept : m <= k}) = j
    IN  /\ Len(filteredEntries) = Cardinality(Kept)
        /\ \A j \in 1..Cardinality(Kept) :
              filteredEntries[j] = parkingEntries[Nth(j)]

\* C14 witness: all three filters are set; of two entries the first is
\* shown and the second, which passes the search and the type filter but
\* not the date filter, is not
C14_Witness ==
    /\ searchTerm # <<>> /\ filterType # "all" /\ dateFilter # "all"
    /\ Len(parkingEntries) = 2
    /\ filteredEntries = <<parkingEntries[1]>>
    /\ SearchTest(parkingEntries[2]) /\ TypeTest(parkingEntries[2])
    /\ ~DateTest(parkingEntries[2])

RECURSIVE LinesOf(_)
\* The lines of a text: the pieces between its line feeds
LinesOf(text) ==
    IF \A k \in DOMAIN text : text[k] # "\n" THEN <<text>>
    ELSE LET k == CHOOSE i \in DOMAIN text :
                     text[i] = "\n" /\ \A j \in 1..(i - 1) : text[j] # "\n"
         IN  <<SubSeq(text, 1, k - 1)>> \o LinesOf(SubSeq(text, k + 1, Len(text)))

\* C15: the exported CSV is the header line "Plate Number,Entry Type,
\* Timestamp" followed by exactly one line per filtered entry, in filtered
\* order: plate, direction, ISO timestamp (1 + n lines for n entries); the
\* CSV of zero entries is the header line alone
C15_CsvShape ==
    [][/\ download' # download =>
            LET lines == LinesOf(download')
            IN  /\ Len(lines) = 1 + Len(filteredEntries)
                /\ lines[1] = <<"Plate Number,Entry Type,Timestamp">>
                /\ \A k \in DOMAIN filteredEntries :
                      lines[k + 1] =
                          filteredEntries[k].plate_number
                          \o <<",", filteredEntries[k].entry_type, ",",
                               IsoText(filteredEntries[k].timestamp)>>
       /\ LinesOf(csvContent(<<>>)) = << <<"Plate Number,Entry Type,Timestamp">> >>
      ]_vars

\* C15 witness: of two entries one is shown, and the CSV exported for it
\* has two lines
C15_Witness ==
    /\ Len(parkingEntries) = 2
    /\ Len(filteredEntries) = 1
    /\ download = csvContent(filteredEntries)
    /\ Len(LinesOf(download)) = 2

-----------------------------------------------------------------------------
(* Claims about the local-storage page (SpecLocal) *)

\* Two lists of the same length and order whose entries agree in id,
\* plate, direction and timestamp
SameEntries(a, b) ==
    /\ Len(a) = Len(b)
    /\ \A k \in DOMAIN a :
        /\ a[k].id = b[k].id
        /\ a[k].plate_number = b[k].plate_number
        /\ a[k].entry_type = b[k].entry_type
        /\ a[k].timestamp = b[k].timestamp

Answered(i) ==
    \/ checkDuplicateEntryOk(i)
    \/ checkDuplicateEntryError(i)
    \/ insertRowOk(i)
    \/ insertRowError(i)
    \/ insertEntryReturn(i)

\* The steps of the remote-backed page and its store; the clock is left
\* out, no step of a call waits for it
RemoteLiveNext ==
    \/ loadParkingEntries
    \/ getAllEntriesOk
    \/ getAllEntriesError
    \/ \E p \in Plates, t \in EntryTypes : addParkingEntry(p, t)
    \/ \E i \in Requests : checkDuplicateEntryOk(i)
    \/ \E i \in Requests : checkDuplicateEntryError(i)
    \/ \E i \in Requests : insertRowOk(i)
    \/ \E i \in Requests : insertRowError(i)
    \/ \E i \in Requests : insertEntryReturn(i)

\* The remote-backed Index page, the store failing at will, every awaited
\* call answered in the end: the promise of the check and of the insert
\* settles, and the continuation of the await is run
SpecRemoteLive ==
    /\ InitRemote
    /\ [][RemoteLiveNext]_vars
    /\ \A i \in Requests : WF_vars(Answered(i))

Pending(i) == reqs[i].pc \in {"check", "insert", "inserted"}

\* The notice that goes with each outcome of a call
NoticeOf(outcome) ==
    CASE outcome = "duplicate" -> "Duplicate Entry Detected"
      [] outcome = "success" -> "License Plate Scanned"
      [] outcome = "failed" -> "Failed to Save Entry"

\* C17: every addParkingEntry call ends, whatever the check and the insert
\* return or throw, and it ends with exactly one of the duplicate notice,
\* the success notice and the "Failed to Save Entry" notice: the step that
\* ends it shows the notice of its outcome, no earlier step of the call
\* shows any notice, and only a call ending in success changes the list
C17_CallEndsWithOneNotice ==
    /\ \A i \in Requests : Pending(i) ~> reqs[i].pc = "done"
    /\ [][\A i \in Requests :
            reqs'[i] # reqs[i] =>
                /\ reqs[i].pc # "done"
                /\ IF reqs'[i].pc = "done"
                   THEN /\ reqs'[i].outcome \in {"duplicate", "success", "failed"}
                        /\ toast' = NoticeOf(reqs'[i].outcome)
                        /\ reqs'[i].outcome # "success"
                              => parkingEntries' = parkingEntries
                   ELSE /\ reqs'[i].outcome = "pending"
                        /\ toast' = toast
                        /\ parkingEntries' = parkingEntries]_vars

\* C17 witness: every call made has ended, one of them with the success
\* notice and a later one with the "Failed to Save Entry" notice
C17_Witness ==
    /\ \A i \in Requests : reqs[i].pc = "done"
    /\ \E i, j \in Requests :
        reqs[i].outcome = "success" /\ reqs[j].outcome = "failed"
    /\ toast = "Failed to Save Entry"

\* C18: no two entries of the in-memory list share an id
C18_IdsUnique ==
    \A j, k \in DOMAIN parkingEntries :
        j # k => parkingEntries[j].id # parkingEntries[k].id

-----------------------------------------------------------------------------
(* Claims about the Image Preprocessor (SpecImage) *)

\* C19: every pixel of the processed frame has R, G and B set to one
\* common value, 255 when 2.0 * gray + 20 > 128 and 0 otherwise, where gray
\* is 0.299 R + 0.587 G + 0.114 B of the input pixel rounded to the nearest
\* integer (a tie upwards, as Math.round does); alpha and the dimensions of
\* the frame are those of the input
C19_PixelRule ==
    processedData # NoImage =>
        /\ processedData.width = imageData.width
        /\ processedData.height = imageData.height
        /\ Len(processedData.data) = Len(imageData.data)
        /\ \A p \in 0..(imageData.width * imageData.height - 1) :
            LET R == imageData.data[4 * p + 1]
                G == imageData.data[4 * p + 2]
                B == imageData.data[4 * p + 3]
                rounded == (299 * R + 587 * G + 114 * B + 500) \div 1000
                value == IF 2 * rounded + 20 > 128 THEN 255 ELSE 0
            IN  /\ processedData.data[4 * p + 1] = value
                /\ processedData.data[4 * p + 2] = value
                /\ processedData.data[4 * p + 3] = value
                /\ processedData.data[4 * p + 4] = imageData.data[4 * p + 4]

-----------------------------------------------------------------------------
(* Claims about the content rule of the Plate Normalizer (SpecNorm) *)

-----------------------------------------------------------------------------
(* Claims about late OCR results in the CameraScanner (SpecScan) *)

\* C21: no plate is shown without a capture: in every reachable state of the
\* scanner a non-empty extractedText implies that capturedImage is non-null
\* (so after Retake no plate appears, and none can be confirmed, until a new
\* capture has been taken).
C21_NoPlateWithoutCapture ==
    extractedText # NoText => capturedImage # 0

\* the capture started last (0 before the first capture)
LatestCapture == Cardinality({n \in Captures : runs[n].pc # "none"})

\* the step in which the OCR run of capture i completes
Completes(i) == runs[i].pc = "terminate" /\ runs'[i].pc = "done"

\* C22: the extracted plate belongs to the latest capture: the completion of
\* the OCR run of a capture that is not the most recently started one does
\* not set extractedText and shows no result notice.
C22_ResultOfLatestCapture ==
    [][\A i \in Captures :
         (Completes(i) /\ i # LatestCapture) =>
            (extractedText' = extractedText /\ toast' = toast)]_vars

-----------------------------------------------------------------------------
(* Claims about the persisted store of the local variant (SpecLocal) *)

\* the JSON array under "smartpark-entries" (empty when there is no item)
Stored(item) == IF item = NoItem THEN <<>> ELSE item[1]

\* C23: the local persisted store never loses entries: no step from the
\* mount onward, the mount-time save effect included, removes an entry from
\* the JSON array under "smartpark-entries"; so the array contains, in every
\* state, every entry it contained before the mount.
C23_StoreNeverLosesEntries ==
    [][\A k \in DOMAIN Stored(storage) :
         \E j \in DOMAIN Stored(storage') :
            Stored(storage')[j] = Stored(storage)[k]]_vars

-----------------------------------------------------------------------------
(* Claims about the Duplicate Guard's failure and boundary cases *)

\* C24: the duplicate check fails open: in the step in which the remote
\* existence check returns an error or throws, checkDuplicateEntry returns
\* false and addParkingEntry goes on to call insertEntry for the plate and
\* direction of the call, with no notice shown, whatever the table holds.
C24_DuplicateCheckFailsOpen ==
    [][\A i \in Requests :
         checkDuplicateEntryError(i) =>
            /\ reqs'[i].pc = "insert"
            /\ reqs'[i].plate = reqs[i].plate
            /\ reqs'[i].type = reqs[i].type
            /\ reqs'[i].ts = now
            /\ toast' = toast]_vars

\* C24 witness: the only call made so far has reached insertEntry although
\* the table holds a row of its plate and direction within the window
C24_Witness ==
    /\ reqs[1].pc = "insert"
    /\ \A i \in Requests : i # 1 => reqs[i].pc = "none"
    /\ ExistsRecent(table, reqs[1].plate, reqs[1].type,
                    toISOString(reqs[1].ts - Window))
    /\ toast = "none"

\* the rows of parking_entries that hold the entries of a list
RowsOf(entries) ==
    {Row(entries[k].id, entries[k].plate_number, entries[k].entry_type,
         entries[k].timestamp) : k \in DOMAIN entries}

\* C25: the local-storage and the remote-backed Duplicate Guard decide
\* identically: for the entry list held in memory and in the table, every
\* plate and direction and the current time, the local check
\* (timestamp > now - 5 min) and the remote check (timestamp >= now - 5 min)
\* give the same answer, an entry exactly 5 minutes old included.
C25_GuardsDecideIdentically ==
    \A p \in Plates, t \in EntryTypes :
        recentDuplicate(parkingEntries, p, t, now - Window)
            = ExistsRecent(RowsOf(parkingEntries), p, t, toISOString(now - Window))

-----------------------------------------------------------------------------
(* Claims about the initial load of the remote-backed page (SpecRemote) *)

\* C26: the initial load never overwrites an in-session append: while the
\* initial load is in flight isLoading is true and no record request has
\* been started, so the list is still the empty initial list when
\* loadParkingEntries replaces it (the replacement comes before the first
\* append).
C26_LoadBeforeFirstAppend ==
    loadPc # "done" =>
        /\ isLoading
        /\ \A i \in Requests : reqs[i].pc = "none"
        /\ parkingEntries = <<>>

\* C26 witness: the load has brought the stored row, and an entry recorded
\* afterwards stands in front of it
C26_Witness ==
    /\ loadPc = "done"
    /\ Len(parkingEntries) = 2
    /\ parkingEntries[2] = EntryOfRow(OldRow)
    /\ \E i \in Requests : reqs[i].outcome = "success"

-----------------------------------------------------------------------------
(* Claims about confirming a capture result (SpecScan) *)

\* the steps in which onPlateScanned is called
Confirms == Len(scanned') = Len(scanned) + 1

\* C27: a capture result is confirmed at most once: onPlateScanned is called
\* only with a non-empty extractedText, and with that text and the selected
\* direction; the step clears capturedImage and extractedText and leaves
\* selectedEntryType as it is; extractedText becomes non-empty again only
\* when an OCR run completes with an accepted plate, so that the calls of
\* onPlateScanned never outnumber the completed OCR runs.
C27_ConfirmedAtMostOnce ==
    /\ [][/\ scanned' # scanned => Confirms
          /\ Confirms =>
                /\ extractedText # NoText
                /\ scanned' = Append(scanned, [plate |-> extractedText,
                                               type |-> selectedEntryType])
                /\ capturedImage' = 0
                /\ extractedText' = NoText
                /\ selectedEntryType' = selectedEntryType
          /\ (extractedText = NoText /\ extractedText' # NoText) =>
                \E i \in Captures :
                    /\ Completes(i)
                    /\ PlateAccepted(cleanPlateNumber(runs[i].text),
                                     runs[i].confidence)]_vars
    /\ [](Len(scanned) <= Cardinality({i \in Captures : runs[i].pc = "done"}))

\* C27 witness: two results have been confirmed, each after its own capture
C27_Witness ==
    /\ Len(scanned) = 2
    /\ extractedText = NoText
    /\ capturedImage = 0
    /\ Cardinality({i \in Captures : runs[i].pc = "done"}) = 2

-----------------------------------------------------------------------------
(* Further claims about the Plate Normalizer (SpecNorm) *)


\* C28: cleanPlateNumber is idempotent: cleaning the cleaned text of any raw
\* string gives the cleaned text again, and the cleaned text holds none of
\* the letters O, Q, I, L, S, Z, G, B, D, U.
C28_CleanIdempotent ==
    normPc = "cleaned" =>
        /\ cleanPlateNumber(cleanedText) = cleanedText
        /\ \A i \in DOMAIN cleanedText :
             cleanedText[i] \notin {"O","Q","I","L","S","Z","G","B","D","U"}

\* C28 witness: a raw string with two corrected letters, a lower-case letter
\* and a digit has been cleaned
C28_Witness ==
    /\ normPc = "cleaned"
    /\ rawText = <<"D", "b", "7">>
    /\ cleanedText = <<"0", "8", "7">>
    /\ cleanPlateNumber(cleanedText) = cleanedText

-----------------------------------------------------------------------------
(* Statistics bar of the Index page (both variants) *)

\* const stats = { totalScans, todayScans, currentlyParked }, computed at
\* every render from parkingEntries (filter(test).length is the length of
\* the selected subsequence)
stats ==
    LET Today(entry) == toDateString(entry.timestamp) = toDateString(now)
        IsEntry(entry) == entry.entry_type = "Entry"
        IsExit(entry) == entry.entry_type = "Exit"
    IN  [totalScans |-> Len(parkingEntries),
         todayScans |-> Len(SelectSeq(parkingEntries, Today)),
         currentlyParked |-> Len(SelectSeq(parkingEntries, IsEntry))
                                - Len(SelectSeq(parkingEntries, IsExit))]

\* {stats.totalScans}
totalScansShown == stats.totalScans

\* Mutant: the difference is shown as it is
currentlyParkedShown_Raw == stats.currentlyParked

\* {Math.max(0, stats.currentlyParked)}
currentlyParkedShown == Max(0, stats.currentlyParked)

\* the entries of a direction in the list
OfType(t) == {k \in DOMAIN parkingEntries : parkingEntries[k].entry_type = t}

\* C29: statistics follow the log: in every reachable state Total Scans is
\* the length of the entry list, and the Currently Parked value on display
\* is the number of Entry entries less the number of Exit entries where
\* that is positive and 0 otherwise, so it is never negative.
C29_StatsFollowLog ==
    LET entries == Cardinality(OfType("Entry"))
        exits == Cardinality(OfType("Exit"))
    IN  /\ totalScansShown = Len(parkingEntries)
        /\ totalScansShown = entries + exits
        /\ currentlyParkedShown >= 0
        /\ entries >= exits => currentlyParkedShown = entries - exits
        /\ entries < exits => currentlyParkedShown = 0

\* C29 witness: the list holds more exits than entries, and more than one
\* entry
C29_Witness ==
    /\ Len(parkingEntries) >= 2
    /\ stats.currentlyParked < 0
    /\ currentlyParkedShown = 0
    /\ totalScansShown = Len(parkingEntries)

====
